---- MODULE Spec2Model ----
(***************************************************************************)
(* A model of three parts of the crush shell:                              *)
(*   - the csv command (src/src/commands/csv.rs): parse, perform, run;     *)
(*   - the root declaration sequence (src/src/lib/mod.rs): declare;        *)
(*   - the glob methods match / not_match (src/src/lib/types/glob.rs).     *)
(* Text is a sequence of characters, a character is a one-character        *)
(* string, except the token "U+00E9", which stands for a character whose   *)
(* UTF-8 encoding is two bytes long.                                       *)
(***************************************************************************)
EXTENDS Integers, Sequences, FiniteSets, TLC

VARIABLES
    \* ---- csv: the CompileContext handed to perform
    arguments,   \* context.arguments: sequence of [name, value]
    pipeIn,      \* what context.input delivers to a recv
    \* ---- csv: effects observed from outside
    recvCount,   \* number of input.recv() calls
    opened,      \* files handed to BinaryReader::from, in order, with the outcome
    initCalls,   \* schemas handed to output.initialize, in order, with the outcome
    sent,        \* rows handed to output.send, in order
    diag,        \* messages handed to the printer, in order
    outClosed,   \* the consumer has closed its end of the output stream
    \* ---- csv: locals of perform / run
    cfg,         \* the Config parse returned
    source,      \* the whole content of cfg.input
    rest,        \* the part of the content the BufReader has not read yet
    skipped,     \* run's counter of skipped lines
    lineNo,      \* number of lines read so far
    stripped,    \* run's line_without_newline of the last line it split
    pc,          \* where perform is
    result,      \* what perform returned
    \* ---- declare(root)
    failing,     \* the modules whose declare returns an error
    declared,    \* modules declared into root, in order
    rootReadonly,\* root scope's read-only flag
    readonlyCalls,\* number of root.readonly() calls
    dpc,         \* index of the next statement of declare
    dres,        \* what declare returned
    \* ---- glob methods
    this,        \* context.this
    gargs,       \* context.arguments
    gOutClosed,  \* the consumer of context.output has closed its end
    gout,        \* values handed to context.output.send, with the method
    gres         \* method -> what it returned

csvVars == <<arguments, pipeIn, recvCount, opened, initCalls,
             sent, diag, outClosed, cfg, source, rest, skipped, lineNo,
             stripped, pc, result>>
declVars == <<failing, declared, rootReadonly, readonlyCalls, dpc, dres>>
globVars == <<this, gargs, gOutClosed, gout, gres>>
vars == <<csvVars, declVars, globVars>>

----------------------------------------------------------------------------
(* Bounds of the model *)

MaxLen == 4      \* longest input content, in characters
MaxCols == 2     \* most declared columns (run entered directly)
MaxSkip == 1     \* largest head (run entered directly)
MaxArgs == 3     \* most arguments of a csv call
MaxPattern == 2  \* longest glob pattern
MaxNeedle == 2   \* longest text matched against a glob

----------------------------------------------------------------------------
(* Text *)

NoValue == [tag |-> "None"]
Ok == [kind |-> "Ok"]
Panic == [kind |-> "Panic"]
Running == [kind |-> "Running"]

RECURSIVE SeqsUpTo(_, _)
SeqsUpTo(S, n) ==
    IF n = 0 THEN {<<>>}
    ELSE LET shorter == SeqsUpTo(S, n - 1)
         IN shorter \cup {Append(s, c) : s \in {t \in shorter : Len(t) = n - 1}, c \in S}

ByteWidth(c) == IF c = "U+00E9" THEN 2 ELSE 1

RECURSIVE ByteLen(_)
ByteLen(s) == IF s = <<>> THEN 0 ELSE ByteWidth(Head(s)) + ByteLen(Tail(s))

\* BufRead::read_line: the content up to and including the first newline,
\* or all of it when it holds none.
RECURSIVE LineEnd(_, _)
LineEnd(s, i) ==
    IF i > Len(s) THEN Len(s)
    ELSE IF s[i] = "\n" THEN i
    ELSE LineEnd(s, i + 1)

read_line(s) == SubSeq(s, 1, LineEnd(s, 1))

\* str::split(char): the pieces between the separators; one piece for a text
\* without separator, also for the empty text.
RECURSIVE split(_, _)
split(s, sep) ==
    LET RECURSIVE First(_)
        First(i) == IF i > Len(s) THEN 0
                    ELSE IF s[i] = sep THEN i
                    ELSE First(i + 1)
        k == First(1)
    IN IF k = 0 THEN <<s>>
       ELSE <<SubSeq(s, 1, k - 1)>> \o split(SubSeq(s, k + 1, Len(s)), sep)

\* str::trim_matches(char): the text without its leading and trailing c.
RECURSIVE trim_matches(_, _)
trim_matches(s, c) ==
    IF s = <<>> THEN s
    ELSE IF Head(s) = c THEN trim_matches(Tail(s), c)
    ELSE IF s[Len(s)] = c THEN trim_matches(SubSeq(s, 1, Len(s) - 1), c)
    ELSE s

Digits == {"0", "1", "2", "3", "4", "5", "6", "7", "8", "9"}

DigitValue(c) ==
    CASE c = "0" -> 0 [] c = "1" -> 1 [] c = "2" -> 2 [] c = "3" -> 3
      [] c = "4" -> 4 [] c = "5" -> 5 [] c = "6" -> 6 [] c = "7" -> 7
      [] c = "8" -> 8 [] c = "9" -> 9

RECURSIVE Decimal(_)
Decimal(s) ==
    IF s = <<>> THEN 0
    ELSE 10 * Decimal(SubSeq(s, 1, Len(s) - 1)) + DigitValue(s[Len(s)])

\* ValueType::from(name): the type a name stands for, a TypeError otherwise.
ValueTypeFrom(name) ==
    IF name = <<"s", "t", "r", "i", "n", "g">> THEN [ok |-> TRUE, type |-> "string"]
    ELSE IF name = <<"i", "n", "t", "e", "g", "e", "r">> THEN [ok |-> TRUE, type |-> "integer"]
    ELSE [ok |-> FALSE, err |-> [kind |-> "TypeError", msg |-> "Unknown type", name |-> "", text |-> name]]

\* ValueType::parse(cell_text): the cell as a Value of that type, a
\* ParseError when the text is not of the type.
ParseCell(type, s) ==
    IF type = "string" THEN [ok |-> TRUE, value |-> [tag |-> "Text", v |-> s]]
    ELSE IF s # <<>> /\ \A i \in 1..Len(s) : s[i] \in Digits
         THEN [ok |-> TRUE, value |-> [tag |-> "Integer", v |-> Decimal(s)]]
    ELSE [ok |-> FALSE, err |-> [kind |-> "ParseError", msg |-> "Not an integer", name |-> "", text |-> s]]

----------------------------------------------------------------------------
(* csv: run *)

\* &line[0..line.len() - 1] (csv.rs:126): the line without its last byte;
\* the slice panics when that byte is inside a character.
line_without_newline(line) ==
    IF ByteWidth(line[Len(line)]) = 1
    THEN [ok |-> TRUE, text |-> SubSeq(line, 1, Len(line) - 1)]
    ELSE [ok |-> FALSE]

\* csv.rs:127-132: split on the separator, trim each piece when trim is set.
SplitLine(text, separator, trim) ==
    LET pieces == split(text, separator)
    IN [i \in 1..Len(pieces) |->
          IF trim = NoValue THEN pieces[i] ELSE trim_matches(pieces[i], trim.v)]

\* csv.rs:136-138: the second trimming of every piece.
TrimAgain(pieces, trim) ==
    IF trim = NoValue THEN pieces
    ELSE [i \in 1..Len(pieces) |-> trim_matches(pieces[i], trim.v)]

Min(a, b) == IF a < b THEN a ELSE b

\* csv.rs:140-143: zip the pieces with the columns, parse each pair, collect
\* into a Result: the cells, or the first error.
ParseCells(pieces, columns) ==
    LET n == Min(Len(pieces), Len(columns))
        parsed == [i \in 1..n |-> ParseCell(columns[i].cell_type, pieces[i])]
        bad == {i \in 1..n : ~parsed[i].ok}
    IN IF bad = {} THEN [ok |-> TRUE, cells |-> [i \in 1..n |-> parsed[i].value]]
       ELSE [ok |-> FALSE, err |-> parsed[CHOOSE i \in bad : \A j \in bad : i <= j].err]

\* The loop has something to read (csv.rs:118-121).
RunReads == pc = "run" /\ rest # <<>>

\* csv.rs:122-125: a line of the head is skipped.
RunSkip ==
    /\ RunReads
    /\ skipped < cfg.skip_head
    /\ rest' = SubSeq(rest, Len(read_line(rest)) + 1, Len(rest))
    /\ lineNo' = lineNo + 1
    /\ skipped' = skipped + 1
    /\ UNCHANGED <<arguments, pipeIn, recvCount, opened,
                   initCalls, sent, diag, outClosed, cfg, source, stripped,
                   pc, result>>
    /\ UNCHANGED <<declVars, globVars>>

\* csv.rs:126-146: a line past the head.
RunLine ==
    /\ RunReads
    /\ ~(skipped < cfg.skip_head)
    /\ LET line == read_line(rest)
           line1 == line_without_newline(line)
       IN /\ rest' = SubSeq(rest, Len(line) + 1, Len(rest))
          /\ lineNo' = lineNo + 1
          /\ stripped' = IF line1.ok THEN [tag |-> "Some", v |-> line1.text]
                                     ELSE [tag |-> "Panic"]
          /\ IF ~line1.ok
             THEN /\ pc' = "done"
                  /\ result' = Panic
                  /\ UNCHANGED <<sent, diag>>
             ELSE LET split1 == SplitLine(line1.text, cfg.separator, cfg.trim)
                      diag1 == IF Len(split1) # Len(cfg.columns)
                               THEN Append(diag, [line |-> lineNo + 1,
                                                  kind |-> "error",
                                                  msg |-> "csv: Wrong number of columns in CSV file"])
                               ELSE diag
                      split2 == TrimAgain(split1, cfg.trim)
                      cells == ParseCells(split2, cfg.columns)
                  IN /\ IF cells.ok
                        THEN /\ sent' = Append(sent, [line |-> lineNo + 1,
                                                      cells |-> cells.cells,
                                                      ok |-> ~outClosed])
                             /\ diag' = diag1
                        ELSE /\ diag' = Append(diag1, [line |-> lineNo + 1,
                                                       kind |-> "job_error",
                                                       msg |-> cells.err])
                             /\ sent' = sent
                     /\ UNCHANGED <<pc, result>>
    /\ UNCHANGED <<arguments, pipeIn, recvCount, opened,
                   initCalls, outClosed, cfg, source, skipped>>
    /\ UNCHANGED <<declVars, globVars>>

\* csv.rs:119-121, 148: read_line leaves the line empty, the loop ends and
\* run returns Ok(()).
RunEof ==
    /\ pc = "run"
    /\ rest = <<>>
    /\ pc' = "done"
    /\ result' = Ok
    /\ UNCHANGED <<arguments, pipeIn, recvCount, opened,
                   initCalls, sent, diag, outClosed, cfg, source, rest,
                   skipped, lineNo, stripped>>
    /\ UNCHANGED <<declVars, globVars>>

\* The consumer of the stage's output closes its end while the stage runs.
ConsumerClose ==
    /\ pc = "run"
    /\ ~outClosed
    /\ outClosed' = TRUE
    /\ UNCHANGED <<arguments, pipeIn, recvCount, opened,
                   initCalls, sent, diag, cfg, source, rest, skipped, lineNo,
                   stripped, pc, result>>
    /\ UNCHANGED <<declVars, globVars>>

----------------------------------------------------------------------------
(* csv: parse and perform *)

Some(x) == [tag |-> "Some", v |-> x]

argument_error(msg, name, text) ==
    [kind |-> "ArgumentError", msg |-> msg, name |-> name, text |-> text]

\* Value::file_expand: the files an unnamed argument stands for.
file_expand(value) ==
    IF value.tag = "File" THEN <<value.v>>
    ELSE IF value.tag = "Glob" THEN value.files
    ELSE <<>>

\* The locals of parse before the first argument (csv.rs:34-38).
ParseStart ==
    [separator |-> ",", columns |-> <<>>, skip_head |-> 0, trim |-> NoValue,
     files |-> <<>>, err |-> NoValue]

ParseArgument_AcceptsUnknown(acc, arg) ==
    IF arg.name = NoValue
    THEN [acc EXCEPT !.files = @ \o file_expand(arg.value)]
    ELSE LET name == arg.name.v
             value == arg.value
         IN CASE name = "col" /\ value.tag = "Text" ->
                   LET sp == split(value.v, ":")
                   IN IF Len(sp) = 2
                      THEN LET t == ValueTypeFrom(sp[2])
                           IN IF t.ok
                              THEN [acc EXCEPT !.columns =
                                       Append(@, [name |-> sp[1], cell_type |-> t.type])]
                              ELSE [acc EXCEPT !.err = t.err]
                      ELSE [acc EXCEPT !.err = argument_error(
                               "Expected a column description on the form name:type, got ",
                               "", value.v)]
              [] name = "head" /\ value.tag = "Integer" ->
                   [acc EXCEPT !.skip_head = value.v]
              [] name = "sep" /\ value.tag = "Text" ->
                   IF ByteLen(value.v) = 1
                   THEN [acc EXCEPT !.separator = value.v[1]]
                   ELSE [acc EXCEPT !.err = argument_error(
                            "Separator must be exactly one character long", "", <<>>)]
              [] name = "trim" /\ value.tag = "Text" ->
                   IF ByteLen(value.v) = 1
                   THEN [acc EXCEPT !.trim = Some(value.v[1])]
                   ELSE [acc EXCEPT !.err = argument_error(
                            "Only one character can be trimmed", "", <<>>)]
              [] OTHER -> acc

\* One turn of the loop over the arguments (csv.rs:40-77). An Integer holds
\* 0 <= n < 2^64 here, where `as usize` changes nothing.
ParseArgument(acc, arg) ==
    IF arg.name = NoValue
    THEN [acc EXCEPT !.files = @ \o file_expand(arg.value)]
    ELSE LET name == arg.name.v
             value == arg.value
         IN CASE name = "col" /\ value.tag = "Text" ->
                   LET sp == split(value.v, ":")
                   IN IF Len(sp) = 2
                      THEN LET t == ValueTypeFrom(sp[2])
                           IN IF t.ok
                              THEN [acc EXCEPT !.columns =
                                       Append(@, [name |-> sp[1], cell_type |-> t.type])]
                              ELSE [acc EXCEPT !.err = t.err]
                      ELSE [acc EXCEPT !.err = argument_error(
                               "Expected a column description on the form name:type, got ",
                               "", value.v)]
              [] name = "head" /\ value.tag = "Integer" ->
                   [acc EXCEPT !.skip_head = value.v]
              [] name = "sep" /\ value.tag = "Text" ->
                   IF ByteLen(value.v) = 1
                   THEN [acc EXCEPT !.separator = value.v[1]]
                   ELSE [acc EXCEPT !.err = argument_error(
                            "Separator must be exactly one character long", "", <<>>)]
              [] name = "trim" /\ value.tag = "Text" ->
                   IF ByteLen(value.v) = 1
                   THEN [acc EXCEPT !.trim = Some(value.v[1])]
                   ELSE [acc EXCEPT !.err = argument_error(
                            "Only one character can be trimmed", "", <<>>)]
              [] OTHER ->
                   [acc EXCEPT !.err = argument_error("Unknown parameter ", name, <<>>)]

\* The loop over the arguments: it returns at the first error.
RECURSIVE ParseArguments(_, _)
ParseArguments(acc, args) ==
    IF args = <<>> \/ acc.err # NoValue THEN acc
    ELSE ParseArguments(ParseArgument(acc, Head(args)), Tail(args))

Closed == [tag |-> "Closed"]

ConfigOf(acc) ==
    [separator |-> acc.separator, columns |-> acc.columns,
     skip_head |-> acc.skip_head, trim |-> acc.trim]

parse_OpensFirstOfMany(args, input, found) ==
    LET acc == ParseArguments(ParseStart, args)
    IN IF acc.err # NoValue
       THEN [ok |-> FALSE, err |-> acc.err, recvs |-> 0, opens |-> <<>>]
       ELSE IF Len(acc.files) = 0
       THEN IF input = Closed
            THEN [ok |-> FALSE, recvs |-> 1, opens |-> <<>>,
                  err |-> [kind |-> "ClosedError", msg |-> "recv", name |-> "", text |-> <<>>]]
            ELSE IF input.tag = "BinaryReader"
            THEN [ok |-> TRUE, cfg |-> ConfigOf(acc), recvs |-> 1, opens |-> <<>>]
            ELSE [ok |-> FALSE, recvs |-> 1, opens |-> <<>>,
                  err |-> argument_error(
                      "Expected either a file to read or binary pipe input", "", <<>>)]
       ELSE IF found
            THEN [ok |-> TRUE, cfg |-> ConfigOf(acc), recvs |-> 0,
                  opens |-> <<[file |-> acc.files[1], ok |-> TRUE]>>]
            ELSE [ok |-> FALSE, recvs |-> 0,
                  opens |-> <<[file |-> acc.files[1], ok |-> FALSE]>>,
                  err |-> [kind |-> "IOError", msg |-> "open", name |-> "", text |-> <<>>]]

\* parse (csv.rs:33-102): the Config or the error, with the number of
\* input.recv() calls and the files handed to BinaryReader::from. `input` is
\* what the pipeline input delivers, `found` whether a file can be opened.
parse(args, input, found) ==
    LET acc == ParseArguments(ParseStart, args)
    IN IF acc.err # NoValue
       THEN [ok |-> FALSE, err |-> acc.err, recvs |-> 0, opens |-> <<>>]
       ELSE IF Len(acc.files) = 0
       THEN IF input = Closed
            THEN [ok |-> FALSE, recvs |-> 1, opens |-> <<>>,
                  err |-> [kind |-> "ClosedError", msg |-> "recv", name |-> "", text |-> <<>>]]
            ELSE IF input.tag = "BinaryReader"
            THEN [ok |-> TRUE, cfg |-> ConfigOf(acc), recvs |-> 1, opens |-> <<>>]
            ELSE [ok |-> FALSE, recvs |-> 1, opens |-> <<>>,
                  err |-> argument_error(
                      "Expected either a file to read or binary pipe input", "", <<>>)]
       ELSE IF Len(acc.files) = 1
       THEN IF found
            THEN [ok |-> TRUE, cfg |-> ConfigOf(acc), recvs |-> 0,
                  opens |-> <<[file |-> acc.files[1], ok |-> TRUE]>>]
            ELSE [ok |-> FALSE, recvs |-> 0,
                  opens |-> <<[file |-> acc.files[1], ok |-> FALSE]>>,
                  err |-> [kind |-> "IOError", msg |-> "open", name |-> "", text |-> <<>>]]
       ELSE [ok |-> FALSE, recvs |-> 0, opens |-> <<>>,
             err |-> argument_error("Expected a file name", "", <<>>)]

\* perform, csv.rs:152: parse, whose error perform returns.
PerformParse ==
    /\ pc = "parse"
    /\ \E found \in BOOLEAN :
          LET r == parse(arguments, pipeIn, found)
          IN /\ recvCount' = recvCount + r.recvs
             /\ opened' = opened \o r.opens
             /\ IF r.ok
                THEN /\ cfg' = r.cfg
                     /\ pc' = "init"
                     /\ UNCHANGED result
                ELSE /\ pc' = "done"
                     /\ result' = r.err
                     /\ UNCHANGED cfg
    /\ UNCHANGED <<arguments, pipeIn, initCalls, sent, diag, outClosed, source,
                   rest, skipped, lineNo, stripped>>
    /\ UNCHANGED <<declVars, globVars>>

InitializeError ==
    [kind |-> "InitializeError", msg |-> "initialize", name |-> "", text |-> <<>>]

PerformInitialize_IgnoresFailure ==
    /\ pc = "init"
    /\ \E ok \in BOOLEAN :
          /\ initCalls' = Append(initCalls, [schema |-> cfg.columns, ok |-> ok])
          /\ pc' = "run"
          /\ UNCHANGED result
    /\ UNCHANGED <<arguments, pipeIn, recvCount, opened, sent, diag, outClosed,
                   cfg, source, rest, skipped, lineNo, stripped>>
    /\ UNCHANGED <<declVars, globVars>>

\* perform, csv.rs:153-155: initialize the output with the columns; its
\* error is returned, otherwise run starts.
PerformInitialize ==
    /\ pc = "init"
    /\ \E ok \in BOOLEAN :
          /\ initCalls' = Append(initCalls, [schema |-> cfg.columns, ok |-> ok])
          /\ IF ok
             THEN /\ pc' = "run"
                  /\ UNCHANGED result
             ELSE /\ pc' = "done"
                  /\ result' = InitializeError
    /\ UNCHANGED <<arguments, pipeIn, recvCount, opened, sent, diag, outClosed,
                   cfg, source, rest, skipped, lineNo, stripped>>
    /\ UNCHANGED <<declVars, globVars>>

----------------------------------------------------------------------------
(* declare(root) *)

\* The module declarations of declare, in the order of mod.rs:30-42.
Modules ==
    <<"type", "time", "math", "comp", "cond", "traversal", "var", "stream",
      "types", "proc", "input", "control", "constants">>

DeclareError(m) == [kind |-> "DeclareError", msg |-> "declare", name |-> m, text |-> <<>>]

DeclareModule_IgnoresError ==
    /\ dpc \in 1..Len(Modules)
    /\ dres = Running
    /\ declared' = Append(declared, [module |-> Modules[dpc], frozen |-> rootReadonly])
    /\ dpc' = dpc + 1
    /\ UNCHANGED <<failing, rootReadonly, readonlyCalls, dres>>
    /\ UNCHANGED <<csvVars, globVars>>

\* mod.rs:30-42, one line: <module>::declare(root)?. A module that fails
\* makes declare return its error; one that succeeds has declared itself
\* into root.
DeclareModule ==
    /\ dpc \in 1..Len(Modules)
    /\ dres = Running
    /\ IF Modules[dpc] \in failing
       THEN /\ dres' = DeclareError(Modules[dpc])
            /\ UNCHANGED <<declared, dpc>>
       ELSE /\ declared' = Append(declared, [module |-> Modules[dpc],
                                             frozen |-> rootReadonly])
            /\ dpc' = dpc + 1
            /\ UNCHANGED dres
    /\ UNCHANGED <<failing, rootReadonly, readonlyCalls>>
    /\ UNCHANGED <<csvVars, globVars>>

\* mod.rs:43-44: root.readonly(); return Ok(()).
DeclareFreeze ==
    /\ dpc = Len(Modules) + 1
    /\ dres = Running
    /\ rootReadonly' = TRUE
    /\ readonlyCalls' = readonlyCalls + 1
    /\ dres' = Ok
    /\ UNCHANGED <<failing, declared, dpc>>
    /\ UNCHANGED <<csvVars, globVars>>

----------------------------------------------------------------------------
(* glob methods *)

Bool(b) == [tag |-> "Bool", v |-> b]

\* Glob::matches: "*" stands for any text, "?" for any one character, any
\* other character for itself.
RECURSIVE GlobMatches(_, _)
GlobMatches(pattern, text) ==
    IF pattern = <<>> THEN text = <<>>
    ELSE IF Head(pattern) = "*"
    THEN GlobMatches(Tail(pattern), text)
         \/ (text # <<>> /\ GlobMatches(pattern, Tail(text)))
    ELSE /\ text # <<>>
         /\ Head(pattern) = "?" \/ Head(pattern) = Head(text)
         /\ GlobMatches(Tail(pattern), Tail(text))

\* This::glob: the receiver when it is a glob.
ThisGlob(receiver) ==
    IF receiver.tag = "Glob" THEN [ok |-> TRUE, value |-> receiver.v]
    ELSE [ok |-> FALSE, err |-> argument_error("Wrong type, expected glob", "", <<>>)]

\* ArgumentVector::string(idx): the argument at idx (from 0) when it is a
\* string.
ArgumentString(args, idx) ==
    IF idx + 1 <= Len(args) /\ args[idx + 1].tag = "Text"
    THEN [ok |-> TRUE, value |-> args[idx + 1].v]
    ELSE [ok |-> FALSE, err |-> argument_error("Wrong argument type, expected string", "", <<>>)]

\* ValueSender::send: fails when the consumer has closed its end.
SendResult == IF gOutClosed THEN [kind |-> "ClosedError", msg |-> "send", name |-> "", text |-> <<>>]
              ELSE Ok

\* The method has returned r.
Returned(method, r) ==
    [m \in DOMAIN gres \cup {method} |-> IF m = method THEN r ELSE gres[m]]

\* glob.rs:66-70: the receiver, then argument 0, then one send.
match ==
    /\ "match" \notin DOMAIN gres
    /\ LET g == ThisGlob(this)
           needle == ArgumentString(gargs, 0)
       IN IF ~g.ok
          THEN /\ gres' = Returned("match", g.err)
               /\ UNCHANGED gout
          ELSE IF ~needle.ok
          THEN /\ gres' = Returned("match", needle.err)
               /\ UNCHANGED gout
          ELSE /\ gout' = Append(gout, [method |-> "match",
                                        value |-> Bool(GlobMatches(g.value, needle.value)),
                                        ok |-> ~gOutClosed])
               /\ gres' = Returned("match", SendResult)
    /\ UNCHANGED <<this, gargs, gOutClosed>>
    /\ UNCHANGED <<csvVars, declVars>>

not_match_Unnegated ==
    /\ "not_match" \notin DOMAIN gres
    /\ LET g == ThisGlob(this)
           needle == ArgumentString(gargs, 0)
       IN IF ~g.ok
          THEN /\ gres' = Returned("not_match", g.err)
               /\ UNCHANGED gout
          ELSE IF ~needle.ok
          THEN /\ gres' = Returned("not_match", needle.err)
               /\ UNCHANGED gout
          ELSE /\ gout' = Append(gout, [method |-> "not_match",
                                        value |-> Bool(GlobMatches(g.value, needle.value)),
                                        ok |-> ~gOutClosed])
               /\ gres' = Returned("not_match", SendResult)
    /\ UNCHANGED <<this, gargs, gOutClosed>>
    /\ UNCHANGED <<csvVars, declVars>>

\* glob.rs:72-76: as match, with the answer negated.
not_match ==
    /\ "not_match" \notin DOMAIN gres
    /\ LET g == ThisGlob(this)
           needle == ArgumentString(gargs, 0)
       IN IF ~g.ok
          THEN /\ gres' = Returned("not_match", g.err)
               /\ UNCHANGED gout
          ELSE IF ~needle.ok
          THEN /\ gres' = Returned("not_match", needle.err)
               /\ UNCHANGED gout
          ELSE /\ gout' = Append(gout, [method |-> "not_match",
                                        value |-> Bool(~GlobMatches(g.value, needle.value)),
                                        ok |-> ~gOutClosed])
               /\ gres' = Returned("not_match", SendResult)
    /\ UNCHANGED <<this, gargs, gOutClosed>>
    /\ UNCHANGED <<csvVars, declVars>>

----------------------------------------------------------------------------
(* Idle values of the parts a specification does not exercise *)

CsvIdle ==
    /\ arguments = <<>>
    /\ pipeIn = NoValue
    /\ recvCount = 0
    /\ opened = <<>>
    /\ initCalls = <<>>
    /\ cfg = NoValue
    /\ source = <<>>
    /\ rest = <<>>
    /\ sent = <<>>
    /\ diag = <<>>
    /\ outClosed = FALSE
    /\ skipped = 0
    /\ lineNo = 0
    /\ stripped = NoValue
    /\ pc = "idle"
    /\ result = Running

DeclIdle ==
    /\ failing = {}
    /\ declared = <<>>
    /\ rootReadonly = FALSE
    /\ readonlyCalls = 0
    /\ dpc = 0
    /\ dres = Running

GlobIdle ==
    /\ this = NoValue
    /\ gargs = <<>>
    /\ gOutClosed = FALSE
    /\ gout = <<>>
    /\ gres = [m \in {} |-> Ok]

----------------------------------------------------------------------------
(* run entered with a Config that parse can return and an initialized output;
   the columns are named c, cc, ... *)

Chars == {"a", "1", ",", "\n", "U+00E9"}
Contents == SeqsUpTo(Chars, MaxLen)
CellTypes == {"string", "integer"}
ColumnLists ==
    {[i \in 1..Len(ts) |-> [name |-> [j \in 1..i |-> "c"], cell_type |-> ts[i]]] :
        ts \in SeqsUpTo(CellTypes, MaxCols)}

InitRun ==
    /\ arguments = <<>>
    /\ pipeIn = NoValue
    /\ recvCount = 0
    /\ opened = <<[file |-> "f1", ok |-> TRUE]>>
    /\ source \in Contents
    /\ rest = source
    /\ \E columns \in ColumnLists, skip \in 0..MaxSkip,
          trim \in {NoValue, [tag |-> "Some", v |-> "a"]} :
          /\ cfg = [separator |-> ",", columns |-> columns,
                    skip_head |-> skip, trim |-> trim]
          /\ initCalls = <<[schema |-> columns, ok |-> TRUE]>>
    /\ sent = <<>>
    /\ diag = <<>>
    /\ outClosed = FALSE
    /\ skipped = 0
    /\ lineNo = 0
    /\ stripped = NoValue
    /\ pc = "run"
    /\ result = Running
    /\ DeclIdle
    /\ GlobIdle

NextRun == RunSkip \/ RunLine \/ RunEof \/ ConsumerClose

SpecRun == InitRun /\ [][NextRun]_vars

----------------------------------------------------------------------------
(* perform called with a CompileContext *)

Text(s) == [tag |-> "Text", v |-> s]
Arg(name, value) == [name |-> Some(name), value |-> value]
Unnamed(value) == [name |-> NoValue, value |-> value]

TypeString == <<"s", "t", "r", "i", "n", "g">>
TypeInteger == <<"i", "n", "t", "e", "g", "e", "r">>

ArgPool ==
    { Unnamed([tag |-> "File", v |-> "f1"]),
      Unnamed([tag |-> "Glob", v |-> <<"f", "*">>, files |-> <<"f1", "f2">>]),
      Arg("col", Text(<<"n", ":">> \o TypeString)),
      Arg("col", Text(<<"a", ":">> \o TypeInteger)),
      Arg("col", Text(<<"n">>)),
      Arg("col", Text(<<"n", ":", "x">>)),
      Arg("head", [tag |-> "Integer", v |-> 1]),
      Arg("head", Text(<<"1">>)),
      Arg("sep", Text(<<";">>)),
      Arg("sep", Text(<<",", ",">>)),
      Arg("trim", Text(<<"a">>)),
      Arg("bogus", [tag |-> "Integer", v |-> 1]),
      Arg("extra", Text(<<"a">>)) }

SampleContents ==
    { <<>>,
      <<"a", ",", "1", "\n">>,
      <<"a", "\n", "1", ",", "1", "\n", "a", ",", "a", "\n">> }

InitPerform ==
    /\ arguments \in SeqsUpTo(ArgPool, MaxArgs)
    /\ source \in SampleContents
    /\ pipeIn \in {Closed, [tag |-> "BinaryReader"], Text(<<"a">>)}
    /\ rest = source
    /\ recvCount = 0
    /\ opened = <<>>
    /\ initCalls = <<>>
    /\ cfg = NoValue
    /\ sent = <<>>
    /\ diag = <<>>
    /\ outClosed = FALSE
    /\ skipped = 0
    /\ lineNo = 0
    /\ stripped = NoValue
    /\ pc = "parse"
    /\ result = Running
    /\ DeclIdle
    /\ GlobIdle

NextPerform ==
    \/ PerformParse
    \/ PerformInitialize
    \/ RunSkip
    \/ RunLine
    \/ RunEof
    \/ ConsumerClose

SpecPerform == InitPerform /\ [][NextPerform]_vars

----------------------------------------------------------------------------
(* declare called on a fresh root scope; which module declarations fail is
   the environment's choice *)

ModuleSet == {Modules[i] : i \in 1..Len(Modules)}

InitDeclare ==
    /\ failing \in SUBSET ModuleSet
    /\ declared = <<>>
    /\ rootReadonly = FALSE
    /\ readonlyCalls = 0
    /\ dpc = 1
    /\ dres = Running
    /\ CsvIdle
    /\ GlobIdle

NextDeclare == DeclareModule \/ DeclareFreeze

SpecDeclare == InitDeclare /\ [][NextDeclare]_vars

----------------------------------------------------------------------------
(* match and not_match called on one receiver with the same arguments *)

PatternChars == {"a", "b", "*", "?"}
NeedleChars == {"a", "b"}
Receivers ==
    {[tag |-> "Glob", v |-> p] : p \in SeqsUpTo(PatternChars, MaxPattern)}
    \cup {NoValue, [tag |-> "Text", v |-> <<"a">>]}
ArgumentVectors ==
    {<<>>, <<[tag |-> "Integer", v |-> 1]>>}
    \cup {<<[tag |-> "Text", v |-> n]>> : n \in SeqsUpTo(NeedleChars, MaxNeedle)}
    \cup {<<[tag |-> "Text", v |-> n], [tag |-> "Text", v |-> <<"b">>]>> :
             n \in SeqsUpTo(NeedleChars, MaxNeedle)}

InitGlob ==
    /\ this \in Receivers
    /\ gargs \in ArgumentVectors
    /\ gOutClosed \in BOOLEAN
    /\ gout = <<>>
    /\ gres = [m \in {} |-> Ok]
    /\ CsvIdle
    /\ DeclIdle

NextGlob == match \/ not_match

SpecGlob == InitGlob /\ [][NextGlob]_vars

----------------------------------------------------------------------------
(* What the claims about parse and perform speak of, taken from the
   arguments alone *)

KnownNames == {"col", "head", "sep", "trim"}

UnknownArgs ==
    {i \in 1..Len(arguments) :
        arguments[i].name # NoValue /\ arguments[i].name.v \notin KnownNames}

\* The argument is one parse takes: a file operand, a column description
\* name:type of a known type, an integer head, a sep or trim of one byte.
Accepted(arg) ==
    \/ arg.name = NoValue
    \/ /\ arg.name.v = "col"
       /\ arg.value.tag = "Text"
       /\ \E i \in 1..Len(arg.value.v) :
             /\ arg.value.v[i] = ":"
             /\ \A j \in 1..Len(arg.value.v) : arg.value.v[j] = ":" => j = i
             /\ SubSeq(arg.value.v, i + 1, Len(arg.value.v)) \in {TypeString, TypeInteger}
    \/ arg.name.v = "head" /\ arg.value.tag = "Integer"
    \/ arg.name.v \in {"sep", "trim"} /\ arg.value.tag = "Text" /\ ByteLen(arg.value.v) = 1

RejectedArgs == {i \in 1..Len(arguments) : ~Accepted(arguments[i])}
FirstRejected == CHOOSE i \in RejectedArgs : \A j \in RejectedArgs : i <= j

RECURSIVE FileOperands(_)
FileOperands(args) ==
    IF args = <<>> THEN <<>>
    ELSE (IF Head(args).name = NoValue THEN file_expand(Head(args).value) ELSE <<>>)
         \o FileOperands(Tail(args))

\* The message of an error is its fixed text followed by the name or the
\* text it was formatted with; no fixed text and no text of an argument
\* holds the name of an argument.
MessageContains(err, name) == err.name = name

NoOutput == initCalls = <<>> /\ sent = <<>> /\ recvCount = 0

Failed == pc = "done" /\ result \notin {Ok, Running, Panic}

\* C3 as stated: for each argument with an unknown name, perform fails with
\* an ArgumentError whose message contains that name, without initializing
\* the output, sending a Row or receiving from the input.
C3_UnknownNameIsReported ==
    pc # "parse" =>
        \A i \in UnknownArgs :
            /\ Failed
            /\ result.kind = "ArgumentError"
            /\ MessageContains(result, arguments[i].name.v)
            /\ NoOutput

\* C3 amended: with an argument of unknown name, perform fails with the
\* error of the first argument parse rejects, without initializing the
\* output, sending a Row or receiving from the input; the error is the
\* ArgumentError "Unknown parameter <name>" when the argument of that name is
\* the first one rejected.
C3_FirstRejectedArgumentIsReported ==
    pc # "parse" =>
        \A i \in UnknownArgs :
            /\ Failed
            /\ NoOutput
            /\ opened = <<>>
            /\ result = ParseArgument(ParseStart, arguments[FirstRejected]).err
            /\ FirstRejected = i =>
                  result = argument_error("Unknown parameter ", arguments[i].name.v, <<>>)

\* An unknown name met after an accepted argument has been reported.
C3_Witness ==
    /\ pc = "done"
    /\ \E i \in UnknownArgs :
          /\ i > 1
          /\ FirstRejected = i
          /\ result = argument_error("Unknown parameter ", arguments[i].name.v, <<>>)

SourceResolved ==
    LET n == Len(FileOperands(arguments))
    IN /\ n = 0 =>
             /\ recvCount = 1
             /\ opened = <<>>
             /\ cfg # NoValue => pipeIn.tag = "BinaryReader"
             /\ pipeIn.tag \notin {"BinaryReader", "Closed"} =>
                   Failed /\ result.kind = "ArgumentError"
             /\ pipeIn = Closed => Failed
       /\ n = 1 =>
             /\ Len(opened) = 1
             /\ opened[1].file = FileOperands(arguments)[1]
             /\ recvCount = 0
       /\ n > 1 =>
             /\ Failed
             /\ result.kind = "ArgumentError"
             /\ opened = <<>>
             /\ recvCount = 0

ParseOutcome == parse(arguments, pipeIn, opened # <<>> /\ opened[1].ok)

\* C5: initialize is called at most once, and only after parse has returned
\* a Config; a Row is sent only after initialize has succeeded; when parse
\* or initialize fails, perform has returned that error and sent no Row.
C5_InitializeOnceBeforeRows ==
    /\ Len(initCalls) <= 1
    /\ initCalls # <<>> =>
          /\ cfg # NoValue
          /\ ParseOutcome.ok
          /\ initCalls[1].schema = cfg.columns
    /\ sent # <<>> => (initCalls # <<>> /\ initCalls[1].ok)
    /\ (pc # "parse" /\ ~ParseOutcome.ok) =>
          /\ pc = "done"
          /\ result = ParseOutcome.err
          /\ initCalls = <<>>
          /\ sent = <<>>
    /\ (initCalls # <<>> /\ ~initCalls[1].ok) =>
          /\ pc = "done"
          /\ result = InitializeError
          /\ sent = <<>>

\* perform has parsed, initialized, sent Rows and returned.
C5_Witness ==
    /\ pc = "done"
    /\ result = Ok
    /\ Len(initCalls) = 1
    /\ Len(sent) >= 2
    /\ Len(cfg.columns) = 2

----------------------------------------------------------------------------
(* What the claims about run speak of: the lines of the input and their
   fields, taken from the input's text alone *)

\* The lines of a content, each without its terminator; a content that ends
\* with a newline has no further, empty line after it.
InputLines(content) ==
    LET p == split(content, "\n")
    IN IF p[Len(p)] = <<>> THEN SubSeq(p, 1, Len(p) - 1) ELSE p

\* The fields of a line under the Config: split on the separator, trimmed.
FieldsOf(text) ==
    LET p == split(text, cfg.separator)
    IN [i \in 1..Len(p) |->
          IF cfg.trim = NoValue THEN p[i] ELSE trim_matches(p[i], cfg.trim.v)]

FieldParses(text, j) ==
    ParseCell(cfg.columns[j].cell_type, FieldsOf(text)[j]).ok

WrongCount(text) == Len(FieldsOf(text)) # Len(cfg.columns)

SomeFieldFails(text) ==
    \E j \in 1..Min(Len(FieldsOf(text)), Len(cfg.columns)) : ~FieldParses(text, j)

Malformed(text) == WrongCount(text) \/ SomeFieldFails(text)

CellsOf(text) ==
    [j \in 1..Len(cfg.columns) |->
        ParseCell(cfg.columns[j].cell_type, FieldsOf(text)[j]).value]

\* The lines run has read past the head.
ReadPastHead == (cfg.skip_head + 1)..lineNo

RowsFor(i) == {k \in 1..Len(sent) : sent[k].line = i}
DiagsFor(i) == {k \in 1..Len(diag) : diag[k].line = i}

\* The input ends with a newline (or is empty): every line is terminated.
Terminated == source = <<>> \/ source[Len(source)] = "\n"

\* C1: every malformed line run has read past the head is reported to the
\* printer and no Row is sent for it, and run, once it has returned, has
\* returned Ok. Stated for the inputs whose lines are all terminated, where
\* the text run splits is the line's content (see C10).
C1_MalformedLinesSkipped ==
    (Terminated /\ pc \in {"run", "done"}) =>
        /\ \A i \in ReadPastHead :
              Malformed(InputLines(source)[i]) =>
                  /\ DiagsFor(i) # {}
                  /\ RowsFor(i) = {}
        /\ (pc = "done" => result = Ok)

\* C2: when run has returned and every line past the head has as many fields
\* as there are columns: no row and no diagnostic for a line of the head;
\* one Row, holding the parsed cells in column order, for each further line
\* whose fields all parse, none for the others, rows in line order; one
\* diagnostic for each further line with a field that fails, none for the
\* others; so nothing at all for an input of head lines or fewer.
C2_OneRowPerGoodLine ==
    LET lines == InputLines(source)
        n == Len(lines)
        past == (cfg.skip_head + 1)..n
    IN (pc = "done" /\ \A i \in past : ~WrongCount(lines[i])) =>
        /\ \A k \in 1..Len(sent) : sent[k].line \in past
        /\ \A k \in 1..Len(diag) : diag[k].line \in past
        /\ \A i \in past :
              IF SomeFieldFails(lines[i])
              THEN Cardinality(DiagsFor(i)) = 1 /\ RowsFor(i) = {}
              ELSE /\ DiagsFor(i) = {}
                   /\ Cardinality(RowsFor(i)) = 1
                   /\ \A k \in RowsFor(i) : sent[k].cells = CellsOf(lines[i])
        /\ \A k, l \in 1..Len(sent) : k < l => sent[k].line < sent[l].line

\* C6: every Row sent has as many cells as the schema the output stream was
\* initialized with. Stated for the inputs whose lines are all terminated.
C6_RowArityIsSchemaArity ==
    Terminated => \A k \in 1..Len(sent) :
        \A c \in 1..Len(initCalls) : Len(sent[k].cells) = Len(initCalls[c].schema)

FailedSends == {k \in 1..Len(sent) : ~sent[k].ok}

\* C7: once a send has failed, run reads no further line, sends no further
\* Row and, when it returns, returns an error. Stated for the inputs whose
\* lines are all terminated.
C7_StopsAfterFailedSend ==
    (Terminated /\ FailedSends # {}) =>
        LET first == CHOOSE k \in FailedSends : \A l \in FailedSends : k <= l
        IN /\ lineNo = sent[first].line
           /\ Len(sent) = first
           /\ (pc = "done" => result \notin {Ok, Panic, Running})

\* C10: the text run splits for a line past the head is the line's content
\* without its terminator, also for a last line that has none.
C10_SplitsLineWithoutTerminator ==
    /\ stripped # NoValue =>
          stripped = [tag |-> "Some", v |-> InputLines(source)[lineNo]]
    /\ result # Panic

----------------------------------------------------------------------------
(* declare *)

\* C8: the modules declared so far are the first ones of the fixed order;
\* readonly is called at most once, and only when all of them are declared;
\* none was declared into a frozen root; when a module has failed, declare
\* has returned its error, with the modules before it declared, none after
\* it, and the root not read-only.
C8_DeclareThenFreeze ==
    /\ Len(declared) <= Len(Modules)
    /\ \A i \in 1..Len(declared) :
          declared[i].module = Modules[i] /\ ~declared[i].frozen
    /\ readonlyCalls <= 1
    /\ rootReadonly <=> readonlyCalls = 1
    /\ rootReadonly => (Len(declared) = Len(Modules) /\ dres = Ok)
    /\ dres = Ok => (rootReadonly /\ failing = {})
    /\ \A i \in 1..Len(Modules) :
          (Modules[i] \in failing /\ \A j \in 1..(i - 1) : Modules[j] \notin failing) =>
              /\ Len(declared) < i
              /\ ~rootReadonly
              /\ dres \in {Running, DeclareError(Modules[i])}
              /\ dres # Running => Len(declared) = i - 1

\* declare has stopped at a module that is neither the first nor the last.
C8_Witness ==
    /\ dres \notin {Ok, Running}
    /\ Len(declared) \in 2..(Len(Modules) - 2)
    /\ ~rootReadonly

----------------------------------------------------------------------------
(* glob methods *)

GoutOf(method) == {k \in 1..Len(gout) : gout[k].method = method}

GlobCall == this.tag = "Glob" /\ gargs # <<>> /\ gargs[1].tag = "Text"

\* C9: a method that has been called on a glob with a string has sent one
\* boolean: match whether the pattern matches the string, not_match the
\* negation of what match sends; called on anything else it has returned an
\* error and sent nothing.
C9_MatchAndNotMatch ==
    /\ \A m \in DOMAIN gres :
          IF GlobCall
          THEN /\ Cardinality(GoutOf(m)) = 1
               /\ \A k \in GoutOf(m) : gout[k].value.tag = "Bool"
               /\ gres[m] = Ok <=> ~gOutClosed
          ELSE /\ GoutOf(m) = {}
               /\ gres[m] \notin {Ok, Running}
    /\ \A k \in GoutOf("match") :
          gout[k].value = Bool(GlobMatches(this.v, gargs[1].v))
    /\ \A k \in GoutOf("match"), l \in GoutOf("not_match") :
          gout[l].value.v = ~gout[k].value.v

\* Both methods have answered for a pattern with a wildcard that matches.
C9_Witness ==
    /\ DOMAIN gres = {"match", "not_match"}
    /\ GlobCall
    /\ \E i \in 1..Len(this.v) : this.v[i] = "*"
    /\ Len(this.v) = 2
    /\ gargs[1].v # <<>>
    /\ \E k \in GoutOf("match") : gout[k].value = Bool(TRUE)
    /\ \E l \in GoutOf("not_match") : gout[l].value = Bool(FALSE)

====
